---- MODULE Spec2Model ----
(***************************************************************************)
(* kener-telegram-relay (src/src/index.ts): an Express handler that        *)
(* authenticates a Kener webhook, acknowledges it, normalizes the payload, *)
(* renders a Telegram HTML message and sends it once, fire-and-forget.     *)
(*                                                                         *)
(* Text.  A string is a sequence of atoms.  The three markup               *)
(* metacharacters "&", "<", ">", the double quote and the newline are      *)
(* always atoms of their own, and so is a white-space character at either  *)
(* end of a string (" "); any other atom is a run of text that contains    *)
(* none of the five ("b", "Severity:", "amp;", "CPU high", ...).           *)
(*                                                                         *)
(* JavaScript values.  A value is a record [t, s, n]: t is the type tag,   *)
(* s the text of a string, n the number of a number (1/0 for a boolean).   *)
(***************************************************************************)
EXTENDS Integers, Sequences, FiniteSets, TLC

\* ------------------------------------------------------------------ bounds
MaxStrLen == 2   \* longest free-text string drawn for a formatter input
MaxTokLen == 2   \* longest token / secret drawn for the authenticator
MaxReq == 2      \* number of POST / requests in a behaviour

\* ------------------------------------------------------- JavaScript values
Undef == [t |-> "undef", s |-> <<>>, n |-> 0]
Null == [t |-> "null", s |-> <<>>, n |-> 0]
Str(x) == [t |-> "str", s |-> x, n |-> 0]
Num(x) == [t |-> "num", s |-> <<>>, n |-> x]
Bool(b) == [t |-> "bool", s |-> <<>>, n |-> IF b THEN 1 ELSE 0]
Obj == [t |-> "obj", s |-> <<>>, n |-> 0]
Arr == [t |-> "arr", s |-> <<>>, n |-> 0]

IsStr(v) == v.t = "str"

\* ToBoolean: undefined, null, false, 0 and "" are falsy; objects and arrays truthy.
Truthy(v) ==
  CASE v.t = "undef" -> FALSE
    [] v.t = "null" -> FALSE
    [] v.t = "bool" -> v.n = 1
    [] v.t = "num" -> v.n # 0
    [] v.t = "str" -> v.s # <<>>
    [] OTHER -> TRUE

\* a || b
Or(a, b) == IF Truthy(a) THEN a ELSE b

\* a ?? b
Nullish(a, b) == IF a.t \in {"undef", "null"} THEN b ELSE a

Digits == <<"0", "1", "2", "3", "4", "5", "6", "7", "8", "9">>

\* String(v) / v.toString(): Arr is the empty array, Obj a plain object.
ToStr(v) ==
  CASE v.t = "str" -> v.s
    [] v.t = "num" -> IF v.n \in 0..9 THEN <<Digits[v.n + 1]>> ELSE <<"number">>
    [] v.t = "bool" -> IF v.n = 1 THEN <<"true">> ELSE <<"false">>
    [] v.t = "null" -> <<"null">>
    [] v.t = "undef" -> <<"undefined">>
    [] v.t = "arr" -> <<>>
    [] OTHER -> <<"[object Object]">>

\* ------------------------------------------------------------------- text
\* lines.join("\n")
RECURSIVE Join(_)
Join(ls) ==
  IF ls = <<>> THEN <<>>
  ELSE IF Len(ls) = 1 THEN ls[1]
  ELSE ls[1] \o <<"\n">> \o Join(Tail(ls))

\* s.replace(/c/g, rep)
RECURSIVE ReplaceAll(_, _, _)
ReplaceAll(s, c, rep) ==
  IF s = <<>> THEN <<>>
  ELSE (IF Head(s) = c THEN rep ELSE <<Head(s)>>) \o ReplaceAll(Tail(s), c, rep)

RECURSIVE TrimLeft(_)
TrimLeft(s) == IF s # <<>> /\ Head(s) = " " THEN TrimLeft(Tail(s)) ELSE s

RECURSIVE TrimRight(_)
TrimRight(s) ==
  IF s # <<>> /\ s[Len(s)] = " " THEN TrimRight(SubSeq(s, 1, Len(s) - 1)) ELSE s

\* String.prototype.trim
Trim(s) == TrimRight(TrimLeft(s))

\* ---------------------------------------------------------- authenticator
\* A plausible slip: only the lengths are compared.
timingSafeEqLengthOnly(a, b) == Len(ToStr(Or(a, Str(<<>>)))) = Len(ToStr(Or(b, Str(<<>>))))

\* A plausible slip: the secret only has to be a prefix of the token.
timingSafeEqPrefix(a, b) ==
  LET ba == ToStr(Or(a, Str(<<>>)))
      bb == ToStr(Or(b, Str(<<>>)))
  IN  Len(ba) >= Len(bb) /\ \A i \in 1..Len(bb) : ba[i] = bb[i]

\* timingSafeEq(a, b): equal byte length, then crypto.timingSafeEqual.
timingSafeEq(a, b) ==
  LET ba == ToStr(Or(a, Str(<<>>)))
      bb == ToStr(Or(b, Str(<<>>)))
  IN  IF Len(ba) # Len(bb) THEN FALSE
      ELSE \A i \in 1..Len(ba) : ba[i] = bb[i]

\* The handler's decision for a header value (Undef when the header is
\* missing) and the configured secret: TRUE when the request goes on.
authorize(header, secret) ==
  IF Truthy(secret)
  THEN LET got == Str(Trim(ToStr(Or(header, Str(<<>>)))))
       IN  timingSafeEq(got, secret)
  ELSE TRUE

\* ---------------------------------------------------------------- escaping
\* A plausible slip: the "<" pass is missing.
escapeHtmlNoLt(v) ==
  ReplaceAll(ReplaceAll(ToStr(Or(v, Str(<<>>))), "&", <<"&", "amp;">>),
             ">", <<"&", "gt;">>)

\* (s || "").replace is not a function unless s || "" is a string.
escapeThrows(v) == ~IsStr(Or(v, Str(<<>>)))

\* escapeHtml(s), for a value on which it does not throw.
escapeHtml(v) ==
  ReplaceAll(
    ReplaceAll(ReplaceAll(ToStr(Or(v, Str(<<>>))), "&", <<"&", "amp;">>),
               "<", <<"&", "lt;">>),
    ">", <<"&", "gt;">>)

\* ------------------------------------------------------------- normalizer
\* An inbound payload: the scalar fields are values; details is a value tag t
\* with the three properties it has when it is an object; actions is a value
\* tag t with the elements it has when it is an array, each element a value
\* tag t with the text and url it has when it is an object.
NoDetails == [t |-> "undef", metric |-> Undef, current_value |-> Undef, threshold |-> Undef]
NoActions == [t |-> "undef", elems |-> <<>>]
ObjAction(text, url) == [t |-> "obj", text |-> text, url |-> url]
EmptyPayload ==
  [id |-> Undef, alert_name |-> Undef, severity |-> Undef, status |-> Undef,
   source |-> Undef, timestamp |-> Undef, description |-> Undef,
   details |-> NoDetails, actions |-> NoActions]

\* o.f of a details / action value o: undefined unless o is an object.
Prop(o, f) == IF o.t = "obj" THEN o[f] ELSE Undef

\* new Date().toISOString() at the time of the request
Now == Str(<<"2026-11-02T00:00:00.000Z">>)

\* pickAction(p)
pickAction(p) ==
  LET isArr == p.actions.t = "arr"
      a == IF isArr /\ Len(p.actions.elems) # 0
           THEN p.actions.elems[1]
           ELSE [t |-> "undef", text |-> Undef, url |-> Undef]
  IN  [text |-> Or(Prop(a, "text"), Str(<<"Open">>)),
       url |-> Or(Prop(a, "url"), Str(<<>>))]

\* normalize(p)
normalize(p) ==
  LET action == pickAction(p)
      details == IF p.details.t \in {"undef", "null"}
                 THEN [NoDetails EXCEPT !.t = "obj"]
                 ELSE p.details
  IN  [id |-> Or(p.id, Str(<<>>)),
       alertName |-> Or(p.alert_name, Str(<<"Alert">>)),
       severity |-> Or(p.severity, Str(<<"unknown">>)),
       status |-> Or(p.status, Str(<<"UNKNOWN">>)),
       source |-> Or(p.source, Str(<<"Kener">>)),
       timestamp |-> Or(p.timestamp, Now),
       description |-> Str(ToStr(Or(p.description, Str(<<>>)))),
       metric |-> Str(ToStr(Or(Prop(details, "metric"), Str(<<>>)))),
       currentValue |-> Nullish(Prop(details, "current_value"), Null),
       threshold |-> Nullish(Prop(details, "threshold"), Null),
       actionText |-> action.text,
       actionUrl |-> action.url]

\* -------------------------------------------------------------- formatter
\* The time value of new Date(v): a number (or boolean) is epoch milliseconds,
\* a string is parsed, anything else (and any other string) gives NaN.
DateParse(v) ==
  CASE v.t \in {"num", "bool"} -> "1970-01-01T00:00"
    [] v = Now -> "2026-11-02T00:00"
    [] v = Str(<<"2024-05-01T10:20:30Z">>) -> "2024-05-01T10:20"
    [] OTHER -> "NaN"

\* Date.prototype.toLocaleString("en-GB", {dateStyle: "medium", timeStyle:
\* "short", timeZone: "UTC"}): "Invalid Date" for NaN; it does not throw.
toLocaleString(tv) ==
  CASE tv = "NaN" -> <<"Invalid Date">>
    [] tv = "2026-11-02T00:00" -> <<"2 Nov 2026, 00:00">>
    [] tv = "2024-05-01T10:20" -> <<"1 May 2024, 10:20">>
    [] OTHER -> <<"1 Jan 1970, 00:00">>

\* formatTime(iso): the catch branch needs toLocaleString to throw, which
\* it does for none of these arguments.
formatTime(iso) == Str(toLocaleString(DateParse(iso)) \o <<" ", "UTC">>)

Bold(x) == <<"<", "b", ">">> \o x \o <<"<", "/b", ">">>
Code(x) == <<"<", "code", ">">> \o x \o <<"<", "/code", ">">>
Field(label, x) == Bold(<<label>>) \o <<" ">> \o Code(x)

statusEmoji(k) ==
  IF k.status = Str(<<"TRIGGERED">>) THEN "U+1F6A8"
  ELSE IF k.status = Str(<<"RESOLVED">>) THEN "U+2705"
  ELSE "U+2139"

severityEmoji(k) ==
  IF k.severity = Str(<<"critical">>) THEN "U+1F534"
  ELSE IF k.severity = Str(<<"warning">>) THEN "U+1F7E0"
  ELSE "U+1F7E2"

\* Each of these is the sequence of elements one statement pushes on lines.
TitleLine(k) ==
  <<Bold(escapeHtml(Str(<<statusEmoji(k), " ">> \o ToStr(k.alertName))))>>

DescriptionLines(k) ==
  IF Truthy(k.description) THEN <<<<>>, escapeHtml(k.description)>> ELSE <<>>

SeverityLine(k) ==
  <<<<>>, <<severityEmoji(k), " ">> \o Field("Severity:", escapeHtml(k.severity))>>

StatusLine(k) == <<Field("Status:", escapeHtml(k.status))>>

SourceLine(k) ==
  IF Truthy(k.source) THEN <<Field("Source:", escapeHtml(k.source))>> ELSE <<>>

MonitorLine(k) ==
  IF Truthy(k.metric) THEN <<Field("Monitor:", escapeHtml(k.metric))>> ELSE <<>>

\* A plausible slip: the truthiness test of the neighbouring lines.
CurrentLineTruthy(k) ==
  IF Truthy(k.currentValue)
  THEN <<Field("Current:", escapeHtml(Str(ToStr(k.currentValue))))>>
  ELSE <<>>

CurrentLine(k) ==
  IF k.currentValue # Null
  THEN <<Field("Current:", escapeHtml(Str(ToStr(k.currentValue))))>>
  ELSE <<>>

ThresholdLine(k) ==
  IF k.threshold # Null
  THEN <<Field("Threshold:", escapeHtml(Str(ToStr(k.threshold))))>>
  ELSE <<>>

TimeLine(k) ==
  IF Truthy(k.timestamp)
  THEN <<Field("Time:", escapeHtml(formatTime(k.timestamp)))>>
  ELSE <<>>

LinkLine(k) ==
  IF Truthy(k.actionUrl)
  THEN << <<"\n", "<", "a href=", "\"">> \o escapeHtml(k.actionUrl)
          \o <<"\"", ">">> \o escapeHtml(k.actionText) \o <<"<", "/a", ">">> >>
  ELSE <<>>

\* The escapeHtml calls buildTelegramMessage makes on a value that may not
\* be a string; one that throws ends the function with a TypeError.
buildThrows(k) ==
  \/ Truthy(k.description) /\ escapeThrows(k.description)
  \/ escapeThrows(k.severity)
  \/ escapeThrows(k.status)
  \/ Truthy(k.source) /\ escapeThrows(k.source)
  \/ Truthy(k.metric) /\ escapeThrows(k.metric)
  \/ Truthy(k.actionUrl) /\ (escapeThrows(k.actionUrl) \/ escapeThrows(k.actionText))

\* buildTelegramMessage(k): threw, or the text lines.join("\n") returns.
buildTelegramMessage(k) ==
  IF buildThrows(k) THEN [threw |-> TRUE, text |-> <<>>]
  ELSE [threw |-> FALSE,
        text |-> Join(TitleLine(k) \o DescriptionLines(k) \o SeverityLine(k)
                      \o StatusLine(k) \o SourceLine(k) \o MonitorLine(k)
                      \o CurrentLine(k) \o ThresholdLine(k) \o TimeLine(k)
                      \o LinkLine(k))]

\* ------------------------------------------------- reading a rendered text
StartsAt(s, i, pre) ==
  i >= 1 /\ i + Len(pre) - 1 <= Len(s) /\ SubSeq(s, i, i + Len(pre) - 1) = pre

\* Position i is the first of a line of the text.
LineStart(text, i) == i = 1 \/ text[i - 1] = "\n"

\* The text has a line that starts with the bold label.
HasField(text, label) ==
  \E i \in 1..Len(text) : LineStart(text, i) /\ StartsAt(text, i, Bold(<<label>>))

\* The text ends with an empty line followed by a line that is a hyperlink.
HasLink(text) ==
  \E i \in 3..Len(text) :
    /\ text[i - 1] = "\n" /\ text[i - 2] = "\n"
    /\ StartsAt(text, i, <<"<", "a href=", "\"">>)
    /\ \A j \in i..Len(text) : text[j] # "\n"

\* The line of the text that starts at position i.
LineAt(text, i) ==
  LET ends == {j \in i..Len(text) : text[j] = "\n"}
      last == IF ends = {} THEN Len(text)
              ELSE (CHOOSE j \in ends : \A h \in ends : j <= h) - 1
  IN  SubSeq(text, i, last)

\* The names of the tags the formatter inserts, other than <a href="...">.
TagNames == {"b", "/b", "code", "/code", "/a"}
EntityTails == {"amp;", "lt;", "gt;"}

\* Positions h..i hold <a href="...">: the opening at h, the closing quote and
\* ">" at i - 1 and i, and no "<" or ">" in between.
HrefTag(s, h, i) ==
  /\ h + 3 <= i - 1
  /\ StartsAt(s, h, <<"<", "a href=", "\"">>)
  /\ s[i - 1] = "\"" /\ s[i] = ">"
  /\ \A j \in (h + 1)..(i - 1) : s[j] \notin {"<", ">"}

\* Every "<", ">" and "&" of the text is part of a fixed tag or of an entity.
MarkupSafe(s) ==
  \A i \in 1..Len(s) :
    /\ s[i] = "&" => (i < Len(s) /\ s[i + 1] \in EntityTails)
    /\ s[i] = "<" =>
         \/ i + 2 <= Len(s) /\ s[i + 1] \in TagNames /\ s[i + 2] = ">"
         \/ \E j \in (i + 1)..Len(s) : HrefTag(s, i, j)
    /\ s[i] = ">" =>
         \/ i >= 3 /\ s[i - 2] = "<" /\ s[i - 1] \in TagNames
         \/ \E h \in 1..(i - 1) : HrefTag(s, h, i)

\* ----------------------------------------------------------------- inputs
\* Free text: "lt;" is the tail of an entity, so "&lt;" is an input too.
Alphabet == {"&", "<", ">", "a", "lt;"}
Strings == UNION {[1..n -> Alphabet] : n \in 0..MaxStrLen}

\* Tokens: " " is a white-space character that String.prototype.trim removes
\* and a header value can carry (U+00A0, say).
TokAlphabet == {"s", "x", " "}
TokStrings == UNION {[1..n -> TokAlphabet] : n \in 0..MaxTokLen}
Headers == {Undef} \cup {Str(x) : x \in TokStrings}
\* loadConfig trims KENER_WEBHOOK_SECRET (src/src/index.ts:51).
Secrets == {Str(x) : x \in {y \in TokStrings : Trim(y) = y}}

\* What a JSON document can put in a field, Undef being a missing field.
Vals ==
  {Undef, Null, Num(0), Num(5), Bool(TRUE), Bool(FALSE), Obj, Arr,
   Str(<<"TRIGGERED">>), Str(<<"critical">>), Str(<<"2024-05-01T10:20:30Z">>)}
    \cup {Str(x) : x \in Strings}

ScalarFields ==
  {"id", "alert_name", "severity", "status", "source", "timestamp", "description"}
DetailFields == {"metric", "current_value", "threshold"}

DemoPayload ==
  [EmptyPayload EXCEPT !.id = Str(<<"demo-1">>), !.alert_name = Str(<<"CPU high">>),
                       !.status = Str(<<"TRIGGERED">>), !.severity = Str(<<"critical">>)]

DetailsValues ==
  {[NoDetails EXCEPT !.t = t] : t \in {"undef", "null", "num", "str", "obj"}}
    \cup {[[NoDetails EXCEPT !.t = "obj"] EXCEPT ![f] = v] : f \in DetailFields, v \in Vals}

ActionsValues ==
  {[NoActions EXCEPT !.t = t] : t \in {"undef", "null", "obj", "str", "arr"}}
    \cup {[t |-> "arr", elems |-> <<[t |-> t, text |-> Undef, url |-> Undef]>>] :
            t \in {"null", "num", "obj"}}
    \cup {[t |-> "arr", elems |-> <<ObjAction(x, y), ObjAction(Str(<<"a">>), Str(<<"a">>))>>] :
            x \in {Undef, Num(5), Str(<<"a">>)}, y \in {Undef, Num(5), Str(<<>>), Str(<<"a">>)}}

\* Payloads: the empty and the demo payload with one field set to any value.
Payloads ==
  LET bases == {EmptyPayload, DemoPayload}
  IN  bases
        \cup {[b EXCEPT ![f] = v] : b \in bases, f \in ScalarFields, v \in Vals}
        \cup {[b EXCEPT !.details = d] : b \in bases, d \in DetailsValues}
        \cup {[b EXCEPT !.actions = a] : b \in bases, a \in ActionsValues}

TextFields ==
  {"alertName", "description", "severity", "status", "source", "metric",
   "currentValue", "threshold", "timestamp", "actionText", "actionUrl"}

\* The alert normalize gives for the empty payload.
DefaultAlert == normalize(EmptyPayload)

\* An alert with markup in every field and every optional line present.
FullAlert ==
  [id |-> Str(<<"a">>), alertName |-> Str(<<"<", "a", ">">>),
   severity |-> Str(<<"&">>), status |-> Str(<<">", "a">>),
   source |-> Str(<<"<">>), timestamp |-> Str(<<"&", "lt;">>),
   description |-> Str(<<"a", "&", "a">>), metric |-> Str(<<">">>),
   currentValue |-> Str(<<"<", "<">>), threshold |-> Num(5),
   actionText |-> Str(<<"&", "&">>), actionUrl |-> Str(<<"a", "&", "a", "<">>)]

\* An alert with every optional value absent.
BareAlert ==
  [DefaultAlert EXCEPT !.source = Str(<<>>), !.metric = Str(<<>>),
                       !.timestamp = Str(<<>>), !.actionUrl = Str(<<>>)]

\* Alerts: a base alert with one field set to any value.
Alerts ==
  LET bases == {DefaultAlert, FullAlert, BareAlert}
  IN  bases \cup {[b EXCEPT ![f] = v] : b \in bases, f \in TextFields, v \in Vals \ {Undef}}

\* ------------------------------------------------------------------ state
VARIABLES
  fop,      \* the function the harness applied: "none" before the call
  authIn,   \* authorize: [header, secret]
  authOut,  \* authorize: its result
  normIn,   \* normalize: the payload
  normOut,  \* normalize: the alert
  fmtIn,    \* buildTelegramMessage: the alert
  fmtOut    \* buildTelegramMessage: [threw, text]

fnVars == <<fop, authIn, authOut, normIn, normOut, fmtIn, fmtOut>>

InitFn ==
  /\ fop = "none"
  /\ authIn = [header |-> Undef, secret |-> Str(<<>>)]
  /\ authOut = TRUE
  /\ normIn = EmptyPayload
  /\ normOut = DefaultAlert
  /\ fmtIn = DefaultAlert
  /\ fmtOut = [threw |-> FALSE, text |-> <<>>]

CallAuthorize ==
  /\ fop = "none"
  /\ \E h \in Headers, c \in Secrets :
       /\ authIn' = [header |-> h, secret |-> c]
       /\ authOut' = authorize(h, c)
  /\ fop' = "authorize"
  /\ UNCHANGED <<normIn, normOut, fmtIn, fmtOut>>

CallNormalize ==
  /\ fop = "none"
  /\ \E p \in Payloads :
       /\ normIn' = p
       /\ normOut' = normalize(p)
  /\ fop' = "normalize"
  /\ UNCHANGED <<authIn, authOut, fmtIn, fmtOut>>

CallFormat ==
  /\ fop = "none"
  /\ \E k \in Alerts :
       /\ fmtIn' = k
       /\ fmtOut' = buildTelegramMessage(k)
  /\ fop' = "format"
  /\ UNCHANGED <<authIn, authOut, normIn, normOut>>


\* ------------------------------------------------------------- dispatcher
\* resp.ok: a status in the range 200-299.
RespOk(status) == status \in 200..299

\* A response body: json says whether resp.json() can decode it; a decoded
\* document is null (t = "null") or an object (t = "obj") with its ok property.
Body(json, t, ok) == [json |-> json, t |-> t, ok |-> ok]
Garbage == Body(FALSE, "null", Undef)
Bodies ==
  {Garbage, Body(TRUE, "null", Undef), Body(TRUE, "obj", Undef),
   Body(TRUE, "obj", Bool(FALSE)), Body(TRUE, "obj", Bool(TRUE))}
Statuses == {200, 500}

\* await resp.json().catch(() => null)
Data(body) == IF body.json THEN body ELSE Body(TRUE, "null", Undef)

\* data?.ok
DataOk(data) == IF data.t = "null" THEN Undef ELSE data.ok

\* JSON.stringify(data)
Stringify(data) ==
  CASE data.t = "null" -> "null"
    [] data.ok = Undef -> "{}"
    [] data.ok = Bool(TRUE) -> "{\"ok\":true}"
    [] OTHER -> "{\"ok\":false}"

NoError == [kind |-> "none", status |-> 0, body |-> ""]
NetworkError == [kind |-> "fetch failed", status |-> 0, body |-> ""]

\* A plausible slip: only the transport status is looked at.
sendTelegramStatusOnly(status, body) ==
  IF ~RespOk(status)
  THEN [kind |-> "Telegram sendMessage failed", status |-> status,
        body |-> Stringify(Data(body))]
  ELSE NoError

\* sendTelegram after the response arrived: the error it throws, NoError
\* when it returns.
sendTelegram(status, body) ==
  LET data == Data(body)
  IN  IF ~RespOk(status) \/ ~Truthy(DataOk(data))
      THEN [kind |-> "Telegram sendMessage failed", status |-> status,
            body |-> Stringify(data)]
      ELSE NoError

\* --------------------------------------------------------------- the relay
VARIABLES
  config,  \* the configuration: [kenerWebhookSecret]
  nreq,    \* number of POST / requests received
  req,     \* req[r]: request r, [header (x-kener-token), body]
  res,     \* res[r]: the HTTP response written for r, [status, body]
  io,      \* io[r]: what the handler of r did to the outside, in order
  sent,    \* sent[r]: the texts handed to fetch for r
  task,    \* task[r]: where the detached sendTelegram of r is
  net,     \* net[r]: what the chat platform answered, [status, body]
  err      \* err[r]: the error the task of r failed with

relayVars == <<config, nreq, req, res, io, sent, task, net, err>>
vars == <<config, nreq, req, res, io, sent, task, net, err,
          fop, authIn, authOut, normIn, normOut, fmtIn, fmtOut>>

Req == 1..MaxReq

NoRes == [status |-> 0, body |-> ""]
Ack == [status |-> 200, body |-> "{\"ok\":true}"]
Unauthorized == [status |-> 401, body |-> "{\"ok\":false,\"error\":\"invalid token\"}"]
NoNet == [status |-> 0, body |-> Garbage]

RelayHeaders == {Undef, Str(<<"s", "x">>), Str(<<"s", "s">>)}
RelaySecrets == {Str(<<>>), Str(<<"s", "x">>)}
RelayPayloads == {DemoPayload, [DemoPayload EXCEPT !.severity = Num(5)]}

InitRelay ==
  /\ config \in {[kenerWebhookSecret |-> c] : c \in RelaySecrets}
  /\ nreq = 0
  /\ req = [r \in Req |-> [header |-> Undef, body |-> EmptyPayload]]
  /\ res = [r \in Req |-> NoRes]
  /\ io = [r \in Req |-> <<>>]
  /\ sent = [r \in Req |-> <<>>]
  /\ task = [r \in Req |-> "none"]
  /\ net = [r \in Req |-> NoNet]
  /\ err = [r \in Req |-> NoError]

\* app.post("/"): the whole synchronous handler.  A rejected token answers 401
\* and returns.  Otherwise it answers 200, normalizes and renders; a TypeError
\* from the rendering ends the handler (Express's error path finds the
\* response already sent), and else fetch is called with the text.
Post(h, p) ==
  /\ nreq < MaxReq
  /\ LET r == nreq + 1
         m == buildTelegramMessage(normalize(p))
     IN  /\ nreq' = r
         /\ req' = [req EXCEPT ![r] = [header |-> h, body |-> p]]
         /\ IF ~authorize(h, config.kenerWebhookSecret)
            THEN /\ res' = [res EXCEPT ![r] = Unauthorized]
                 /\ io' = [io EXCEPT ![r] = <<"res">>]
                 /\ UNCHANGED <<sent, task>>
            ELSE /\ res' = [res EXCEPT ![r] = Ack]
                 /\ IF m.threw
                    THEN /\ io' = [io EXCEPT ![r] = <<"res">>]
                         /\ task' = [task EXCEPT ![r] = "threw"]
                         /\ UNCHANGED sent
                    ELSE /\ io' = [io EXCEPT ![r] = <<"res", "fetch">>]
                         /\ sent' = [sent EXCEPT ![r] = Append(@, m.text)]
                         /\ task' = [task EXCEPT ![r] = "fetching"]
  /\ UNCHANGED <<config, net, err>>

\* await fetch(...) rejects: a network error.
FetchFail(r) ==
  /\ task[r] = "fetching"
  /\ task' = [task EXCEPT ![r] = "rejected"]
  /\ err' = [err EXCEPT ![r] = NetworkError]
  /\ UNCHANGED <<config, nreq, req, res, io, sent, net>>

\* await fetch(...) resolves with a response of some status.
FetchRespond(r, status) ==
  /\ task[r] = "fetching"
  /\ task' = [task EXCEPT ![r] = "reading"]
  /\ net' = [net EXCEPT ![r].status = status]
  /\ UNCHANGED <<config, nreq, req, res, io, sent, err>>

\* await resp.json() settles and sendTelegram returns or throws.
ReadBody(r, body) ==
  /\ task[r] = "reading"
  /\ net' = [net EXCEPT ![r].body = body]
  /\ LET e == sendTelegram(net[r].status, body)
     IN  /\ err' = [err EXCEPT ![r] = e]
         /\ task' = [task EXCEPT ![r] = IF e = NoError THEN "resolved" ELSE "rejected"]
  /\ UNCHANGED <<config, nreq, req, res, io, sent>>

\* A plausible slip: the failure is answered to the caller.
CatchSurfacing(r) ==
  /\ task[r] = "rejected"
  /\ task' = [task EXCEPT ![r] = "logged"]
  /\ res' = [res EXCEPT ![r] = [status |-> 502, body |-> "{\"ok\":false}"]]
  /\ UNCHANGED <<config, nreq, req, io, sent, net, err>>

\* A plausible slip: the failed send is tried again.
CatchRetrying(r) ==
  /\ task[r] = "rejected"
  /\ task' = [task EXCEPT ![r] = "fetching"]
  /\ sent' = [sent EXCEPT ![r] = Append(@, @[1])]
  /\ UNCHANGED <<config, nreq, req, res, io, net, err>>

\* .catch((err) => console.error(...)): the failure is logged, nothing else.
Catch(r) ==
  /\ task[r] = "rejected"
  /\ task' = [task EXCEPT ![r] = "logged"]
  /\ UNCHANGED <<config, nreq, req, res, io, sent, net, err>>

Next ==
  \/ \E h \in RelayHeaders, p \in RelayPayloads : Post(h, p) /\ UNCHANGED fnVars
  \/ \E r \in Req : FetchFail(r) /\ UNCHANGED fnVars
  \/ \E r \in Req, st \in Statuses : FetchRespond(r, st) /\ UNCHANGED fnVars
  \/ \E r \in Req, b \in Bodies : ReadBody(r, b) /\ UNCHANGED fnVars
  \/ \E r \in Req : Catch(r) /\ UNCHANGED fnVars

Init == InitRelay /\ InitFn

Spec == Init /\ [][Next]_vars

\* The harness of the three functions: the relay receives nothing.
InitHarness ==
  /\ InitFn
  /\ InitRelay
  /\ config.kenerWebhookSecret = Str(<<>>)

NextFn ==
  \/ CallAuthorize /\ UNCHANGED relayVars
  \/ CallNormalize /\ UNCHANGED relayVars
  \/ CallFormat /\ UNCHANGED relayVars

SpecFn == InitHarness /\ [][NextFn]_vars

\* ------------------------------------------------- claims on the functions
\* The presented token as the handler reads it: "" when the header is missing.
Presented(h) == ToStr(Or(h, Str(<<>>)))

\* C5 as stated: authorize is true for every token when the secret is empty,
\* and otherwise true if and only if the presented token is exactly equal to
\* the secret.
C5_ExactEquality ==
  fop = "authorize" =>
    (authOut <=> (authIn.secret.s = <<>> \/ Presented(authIn.header) = authIn.secret.s))

\* C5 amended: authorize is true for every token when the secret is empty,
\* and otherwise true if and only if the presented token, with the white
\* space around it removed, is equal to the secret; it never raises.
C5_EqualityAfterTrim ==
  fop = "authorize" =>
    /\ authOut \in BOOLEAN
    /\ authOut <=> \/ authIn.secret.s = <<>>
                   \/ Trim(Presented(authIn.header)) = authIn.secret.s

\* C5 witness: a token that differs from the secret by white space is accepted.
C5_Witness ==
  /\ fop = "authorize"
  /\ authIn.secret.s # <<>>
  /\ Presented(authIn.header) # authIn.secret.s
  /\ Len(Presented(authIn.header)) # Len(authIn.secret.s)
  /\ authOut

AlertStringFields ==
  {"id", "alertName", "severity", "status", "source", "timestamp", "description",
   "metric", "actionText", "actionUrl"}

\* C6 as stated: normalize returns an alert whose id, alertName, severity,
\* status, source, timestamp, description, metric, actionText and actionUrl
\* are all strings, and whose currentValue and threshold are the supplied
\* value or null.
C6_AllFieldsStrings ==
  fop = "normalize" =>
    /\ \A f \in AlertStringFields : IsStr(normOut[f])
    /\ normOut.currentValue \in {Null, normIn.details.current_value}
    /\ normOut.threshold \in {Null, normIn.details.threshold}

\* The alert's text fields are strings, its two values strings, numbers or null.
WellTyped(k) ==
  /\ \A f \in AlertStringFields : IsStr(k[f])
  /\ k.currentValue.t \in {"str", "num", "null"}
  /\ k.threshold.t \in {"str", "num", "null"}

\* C7: for an alert whose text fields are strings, every "<", ">" and "&" of
\* the rendered message belongs to a tag the formatter inserts or to an
\* entity &amp; &lt; &gt;.
C7_MarkupSafe ==
  (fop = "format" /\ WellTyped(fmtIn)) =>
    (~fmtOut.threw /\ MarkupSafe(fmtOut.text))

\* C7 witness: an alert with all three metacharacters in its text was rendered.
C7_Witness ==
  /\ fop = "format"
  /\ WellTyped(fmtIn)
  /\ \E i \in 1..Len(fmtIn.description.s) : fmtIn.description.s[i] = "<"
  /\ \E i \in 1..Len(fmtIn.actionUrl.s) : fmtIn.actionUrl.s[i] = "&"
  /\ \E i \in 1..Len(fmtIn.status.s) : fmtIn.status.s[i] = ">"
  /\ ~fmtOut.threw
  /\ Len(fmtOut.text) > 0

\* A value that is neither null nor empty.
NonEmpty(v) == v # Null /\ v # Str(<<>>)

\* C8 as stated: Source:, Monitor:, Current: and Threshold: are each emitted
\* if and only if the value is non-empty and non-null, the link if and only
\* if actionUrl is non-empty, and Status: always.
C8_LinesIffNonEmpty ==
  (fop = "format" /\ WellTyped(fmtIn)) =>
    /\ ~fmtOut.threw
    /\ HasField(fmtOut.text, "Status:")
    /\ HasField(fmtOut.text, "Source:") <=> NonEmpty(fmtIn.source)
    /\ HasField(fmtOut.text, "Monitor:") <=> NonEmpty(fmtIn.metric)
    /\ HasField(fmtOut.text, "Current:") <=> NonEmpty(fmtIn.currentValue)
    /\ HasField(fmtOut.text, "Threshold:") <=> NonEmpty(fmtIn.threshold)
    /\ HasLink(fmtOut.text) <=> NonEmpty(fmtIn.actionUrl)

\* C8 amended: Source: and Monitor: are each emitted if and only if the value
\* is non-empty, Current: and Threshold: if and only if the value is not null
\* (an empty string still gives the line), the link if and only if actionUrl
\* is non-empty, and Status: always.
C8_LinesIffPresent ==
  (fop = "format" /\ WellTyped(fmtIn)) =>
    /\ ~fmtOut.threw
    /\ HasField(fmtOut.text, "Status:")
    /\ HasField(fmtOut.text, "Source:") <=> NonEmpty(fmtIn.source)
    /\ HasField(fmtOut.text, "Monitor:") <=> NonEmpty(fmtIn.metric)
    /\ HasField(fmtOut.text, "Current:") <=> fmtIn.currentValue # Null
    /\ HasField(fmtOut.text, "Threshold:") <=> fmtIn.threshold # Null
    /\ HasLink(fmtOut.text) <=> NonEmpty(fmtIn.actionUrl)

\* C8 witness: an alert whose currentValue is the empty string was rendered
\* with a Current: line.
C8_Witness ==
  /\ fop = "format"
  /\ WellTyped(fmtIn)
  /\ fmtIn.currentValue = Str(<<>>)
  /\ HasField(fmtOut.text, "Current:")

\* The Time: line of a text, <<>> when it has none.
TimeLineOf(text) ==
  LET at == {i \in 1..Len(text) :
               LineStart(text, i) /\ StartsAt(text, i, Bold(<<"Time:">>))}
  IN  IF at = {} THEN <<>> ELSE LineAt(text, CHOOSE i \in at : TRUE)

\* C9 as stated: the Time: line holds the fixed UTC representation when the
\* timestamp is a parseable date, and the raw timestamp (escaped) when not.
C9_TimeLineFallback ==
  (fop = "format" /\ WellTyped(fmtIn) /\ fmtIn.timestamp # Str(<<>>)) =>
    TimeLineOf(fmtOut.text) =
      Field("Time:",
            IF DateParse(fmtIn.timestamp) # "NaN"
            THEN toLocaleString(DateParse(fmtIn.timestamp)) \o <<" ", "UTC">>
            ELSE escapeHtml(fmtIn.timestamp))

\* ----------------------------------------------------- claims on the relay
Secret == config.kenerWebhookSecret.s

\* Request r has been received and its token fails authentication: a secret
\* is configured and the token is missing or different from it.
FailsAuth(r) ==
  r <= nreq /\ Secret # <<>> /\ Trim(Presented(req[r].header)) # Secret

\* Request r has been received and passes, or skips, authentication.
PassesAuth(r) ==
  r <= nreq /\ (Secret = <<>> \/ Trim(Presented(req[r].header)) = Secret)

\* C1: a request whose token fails authentication is answered 401
\* {ok:false,error:"invalid token"} and nothing else is done for it: no
\* normalize, no format, no outbound send, then or later.
C1_RejectedDoesNothing ==
  \A r \in Req :
    FailsAuth(r) =>
      /\ res[r] = Unauthorized
      /\ io[r] = <<"res">>
      /\ sent[r] = <<>>
      /\ task[r] = "none"
      /\ net[r] = NoNet /\ err[r] = NoError

\* C1 witness: a token of the secret's length, but different, was rejected
\* while another request was being sent.
C1_Witness ==
  \E r, q \in Req :
    /\ FailsAuth(r)
    /\ req[r].header = Str(<<"s", "s">>)
    /\ res[r] = Unauthorized
    /\ task[q] = "fetching"

\* C2: a request that passes authentication is answered 200 {ok:true} before
\* its outbound send begins, and that answer stands whatever normalize,
\* format and the dispatch come to.
C2_AckStands ==
  \A r \in Req :
    PassesAuth(r) =>
      /\ res[r] = Ack
      /\ Len(io[r]) >= 1 /\ io[r][1] = "res"
      /\ \A i \in 1..Len(io[r]) : io[r][i] = "fetch" => i > 1
      /\ sent[r] # <<>> => io[r] = <<"res", "fetch">>

\* C2 witness: the platform answered 200 with {ok:false}, the failure was
\* logged, and another accepted request died in the rendering.
C2_Witness ==
  \E r, q \in Req :
    /\ PassesAuth(r) /\ PassesAuth(q)
    /\ task[r] = "logged"
    /\ net[r] = [status |-> 200, body |-> Body(TRUE, "obj", Bool(FALSE))]
    /\ task[q] = "threw"
    /\ res[r] = Ack /\ res[q] = Ack

\* C3: at most one outbound send per accepted request, none for any other,
\* and a failed send is not sent again: the sends never outnumber the
\* accepted requests.
C3_SingleAttempt ==
  /\ \A r \in Req : Len(sent[r]) <= 1
  /\ \A r \in Req : sent[r] # <<>> => PassesAuth(r)
  /\ Cardinality({r \in Req : sent[r] # <<>>}) <= Cardinality({r \in Req : PassesAuth(r)})

\* C3 witness: a send failed on the network, another was refused by the
\* platform, both were logged, and each was sent once.
C3_Witness ==
  \E r, q \in Req :
    /\ task[r] = "logged" /\ err[r] = NetworkError
    /\ task[q] = "logged" /\ err[q].status = 500
    /\ Len(sent[r]) = 1 /\ Len(sent[q]) = 1

\* The answer of the chat platform to r is a success status with a decoded
\* body that has ok:true.
Acknowledged(r) ==
  /\ net[r].status \in 200..299
  /\ net[r].body.json /\ net[r].body.t = "obj" /\ net[r].body.ok = Bool(TRUE)

C10_EveryAcceptedIsSent ==
  \A r \in Req :
    PassesAuth(r) => (task[r] # "threw" /\ Len(sent[r]) = 1)

====
